---- MODULE Spec2Model ----
(***************************************************************************)
(* A model of the entity-resolution and source-ranking core of the Gro API *)
(* client (src/gro/client.py): GroClient.find_data_series, a generator     *)
(* that searches each named role, walks the product of the candidates,     *)
(* asks the directory for the series of every candidate and hands them to  *)
(* rank_series_by_source, itself a generator.  The remote directory        *)
(* (gro.lib: search, get_data_series, get_source_ranking) is modelled as   *)
(* a deterministic catalogue.  gro/lib.py and gro/cfg.py are not among the *)
(* sources: lib.rank_series_by_source follows its docstring in client.py   *)
(* ("for each unique combination excluding source, expand to all available *)
(* sources"), its test in lib_test.py and section 4.3 of the               *)
(* specification.                                                          *)
(*                                                                         *)
(* Spec     : find_data_series under any criteria, read by a consumer that *)
(*            may stop after any item.                                     *)
(* SpecRank : rank_series_by_source called directly on a list of           *)
(*            selections.                                                  *)
(* SpecConvert    : convert_unit, statement by statement, called by one    *)
(*            caller on any point and then on what it got back.            *)
(* SpecConcurrent : convert_unit called by two callers at once, each on a  *)
(*            point object of its own.                                     *)
(* SpecRegions    : get_descendant_regions against any directory           *)
(*            (lib.get_descendant_regions follows section 4.1 of the       *)
(*            specification and test_descendant_regions).                  *)
(* SpecClient     : the saved series of a client: add_single_data_series,  *)
(*            add_data_series, GDH, get_df, whose fetches may raise, and   *)
(*            get_data_series_list, called one after the other.            *)
(* SpecPoints     : get_data_points on any response of the API, for a      *)
(*            selection with or without a unit_id.                         *)
(*                                                                         *)
(* A python dict is a function from a finite set of key strings to values. *)
(***************************************************************************)
EXTENDS Integers, Sequences, FiniteSets, TLC

VARIABLES
    kwargs,          \* find_data_series(**kwargs): the criteria given by name
    dirHits,         \* directory: role |-> number of entities its search text matches
    pc,              \* position of the find_data_series / ranking generator
    want,            \* the consumer has called next() and the generator is running
    search_results,  \* client.py:663
    keys,            \* client.py:664
    combIdx,         \* index of the next tuple of itertools.product (client.py:682)
    all_data_series, \* client.py:681
    searchLog,       \* calls of search made so far: <<entity_type, search_terms>>
    listLog,         \* calls of get_data_series made so far: the entities passed
    rankerLog,       \* calls of rank_series_by_source made so far: the list passed
    selections_list, \* argument of the running rank_series_by_source
    rk_started,      \* the body of rank_series_by_source has begun to run
    rk_todo,         \* selections the ranking generator has still to rank
    rk_cur,          \* the selection whose sources are being yielded
    rk_srcs,         \* ranked source ids of rk_cur not yet yielded
    rankLog,         \* calls of the ranking endpoint made so far: the selection sent
    out,             \* items the consumer has received, in order
    points,          \* the point objects of the callers of convert_unit, one per thread
    cu_pc,           \* thread |-> position of its convert_unit call
    cu_targets,      \* thread |-> target_unit_id of each call it has made, in order
    cu_from,         \* thread |-> from_convert_factor (client.py:880)
    cu_to,           \* thread |-> to_convert_factor (client.py:887)
    cu_result,       \* thread |-> how its last call ended: what it returned or raised
    cu_lookups,      \* thread |-> unit ids its running or last call has looked up
    cu_trace,        \* thread |-> statements its running or last call has executed
    cu_given,        \* thread |-> the fields of its point when its last call began
    cu_original,     \* thread |-> the fields of its point before its first call
    rg_known,        \* directory: the region asked about resolves
    rg_descendants,  \* directory: ids of its descendants, in the order it returns them
    rg_historical,   \* directory: ids of the regions whose historical flag is true
    rg_pc,           \* position of the get_descendant_regions call
    rg_opts,         \* the options the caller gave by name
    rg_call,         \* the arguments handed to lib.get_descendant_regions
    rg_requests,     \* descendant requests made of the directory
    rg_lookups,      \* lookups of regions made so far: the ids asked for
    rg_result,       \* what the call returned or raised
    heap,            \* the data series objects handed to the client, by reference
    self_data_series_list,   \* self._data_series_list: references (client.py:48)
    self_data_series_queue,  \* self._data_series_queue: references (client.py:49)
    self_data_frame, \* self._data_frame: the series whose points it holds
    fetchLog,        \* calls of get_data_points by get_df: <<reference, outcome>>
    op,              \* the method of the client that is running
    show_revisions,  \* argument of the running get_df
    before,          \* saved list, queue, fetches when the running method began
    last,            \* the last method that ended and what it returned or raised
    gp_selections,   \* get_data_points(**selections)
    gp_pc,           \* position of the get_data_points call
    gp_result        \* what get_data_points returned or raised

vars == <<kwargs, dirHits, pc, want, search_results, keys, combIdx, all_data_series,
          searchLog, listLog, rankerLog, selections_list, rk_started, rk_todo,
          rk_cur, rk_srcs, rankLog, out,
          points, cu_pc, cu_targets, cu_from, cu_to, cu_result, cu_lookups, cu_trace,
          cu_given, cu_original,
          rg_known, rg_descendants, rg_historical, rg_pc, rg_opts, rg_call, rg_requests,
          rg_lookups, rg_result,
          heap, self_data_series_list, self_data_series_queue, self_data_frame, fetchLog, op,
          show_revisions, before, last, gp_selections, gp_pc, gp_result>>

convVars == <<points, cu_pc, cu_targets, cu_from, cu_to, cu_result, cu_lookups, cu_trace,
              cu_given, cu_original>>

regionVars == <<rg_known, rg_descendants, rg_historical, rg_pc, rg_opts, rg_call,
                rg_requests, rg_lookups, rg_result>>

clientVars == <<heap, self_data_series_list, self_data_series_queue,
                self_data_frame, fetchLog, op, show_revisions, before, last>>

pointsVars == <<gp_selections, gp_pc, gp_result>>

\* the state of the operations other than find_data_series and the ranking
elsewhere == <<convVars, regionVars, clientVars, pointsVars>>

\* the state of the generators of find_data_series and the ranking
genVars == <<kwargs, dirHits, pc, want, search_results, keys, combIdx, all_data_series,
             searchLog, listLog, rankerLog, selections_list, rk_started, rk_todo,
             rk_cur, rk_srcs, rankLog, out>>

findVars == <<search_results, keys, combIdx, all_data_series, searchLog, listLog>>
rankVars == <<selections_list, rk_started, rk_todo, rk_cur, rk_srcs, rankLog>>

----------------------------------------------------------------------------
(* Bounds of the model. *)

\* most entities a search text matches in the directory
MaxHits == 3
\* most series the directory holds for one candidate selection
MaxSeries == 2
\* most sources the ranking endpoint returns for one selection
MaxSources == 2
\* longest list given directly to rank_series_by_source
MaxSelections == 3

----------------------------------------------------------------------------
(* Python values. *)

EmptyDict == [k \in {} |-> 0]

Put(d, k, v) == [x \in (DOMAIN d) \cup {k} |-> IF x = k THEN v ELSE d[x]]

Without(d, ks) == [x \in (DOMAIN d) \ ks |-> d[x]]

\* bool(d.get(k)): the key is there and its value is not the empty string
Truthy(d, k) == k \in DOMAIN d /\ d[k] # ""

Min(a, b) == IF a <= b THEN a ELSE b

SliceAll(seq, n) == seq

\* seq[:n]
Slice(seq, n) == SubSeq(seq, 1, Min(n, Len(seq)))

RECURSIVE Concat(_)
Concat(ss) == IF ss = <<>> THEN <<>> ELSE Head(ss) \o Concat(Tail(ss))

\* dict(zip(ks, vs)); a later pair overrides an earlier one with the same key
DictZip(ks, vs) ==
    LET n == Min(Len(ks), Len(vs))
    IN  [k \in {ks[i] : i \in 1..n} |->
            vs[CHOOSE i \in 1..n : ks[i] = k /\ \A j \in (i+1)..n : ks[j] # k]]

Front(seq) == SubSeq(seq, 1, Len(seq) - 1)

Last(seq) == seq[Len(seq)]

\* zip(*lists)
ProductZip(lists) ==
    IF lists = <<>> THEN <<>>
    ELSE LET n == CHOOSE m \in 0..Len(lists[1]) :
                    /\ \A p \in 1..Len(lists) : m <= Len(lists[p])
                    /\ \E p \in 1..Len(lists) : m = Len(lists[p])
         IN  [i \in 1..n |-> [p \in 1..Len(lists) |-> lists[p][i]]]

ProductFirstFastest(lists) ==
    LET RECURSIVE P(_)
        P(ls) ==
            IF ls = <<>> THEN << <<>> >>
            ELSE LET R == P(Tail(ls))
                     H == Head(ls)
                 IN  [i \in 1..(Len(R) * Len(H)) |->
                        <<H[((i - 1) % Len(H)) + 1]>> \o R[((i - 1) \div Len(H)) + 1]]
    IN  P(lists)

\* the product of the lists that are not empty
ProductSkipEmpty(lists) ==
    LET RECURSIVE P(_)
        P(ls) ==
            IF ls = <<>> THEN << <<>> >>
            ELSE LET R == P(Front(ls))
                     L == Last(ls)
                 IN  IF L = <<>> THEN R
                     ELSE [i \in 1..(Len(R) * Len(L)) |->
                            Append(R[((i - 1) \div Len(L)) + 1], L[((i - 1) % Len(L)) + 1])]
    IN  P(lists)

\* itertools.product(*lists): the rightmost list advances on every tuple, and the
\* product of no lists is the one empty tuple
Product(lists) ==
    LET RECURSIVE P(_)
        P(ls) ==
            IF ls = <<>> THEN << <<>> >>
            ELSE LET R == P(Front(ls))
                     L == Last(ls)
                 IN  [i \in 1..(Len(R) * Len(L)) |->
                        Append(R[((i - 1) \div Len(L)) + 1], L[((i - 1) % Len(L)) + 1])]
    IN  P(lists)

----------------------------------------------------------------------------
(* The directory (gro.lib), as the client sees it. *)

\* cfg.MAX_RESULT_COMBINATION_DEPTH; gro/cfg.py sets the value, a small one is
\* taken here
MAX_RESULT_COMBINATION_DEPTH == 2

Roles == <<"item", "metric", "region", "partner_region">>

RoleSet == {Roles[i] : i \in 1..Len(Roles)}

ENTITY_TYPE == [r \in RoleSet |->
    CASE r = "item" -> "items"
      [] r = "metric" -> "metrics"
      [] OTHER -> "regions"]

\* search(entity_type, search_terms): the entities matching the text of role r, best
\* match first; ids are not in increasing order
search(r) == [i \in 1..dirHits[r] |-> [id |-> dirHits[r] + 1 - i]]

IdOf(d, k) == IF k \in DOMAIN d THEN d[k] ELSE 0

\* the sum of the entity ids of a selection: what the catalogue keys on
SumIds(d) ==
    IdOf(d, "item_id") + IdOf(d, "metric_id") + IdOf(d, "region_id")
        + IdOf(d, "partner_region_id")

\* get_data_series(**entities): the series available for a selection, each with its
\* frequency and source, the dates the source covers and the name of the source;
\* two series of a selection may differ in the source alone
get_data_series(entities) ==
    LET sum == SumIds(entities)
        n == (sum + 1) % (MaxSeries + 1)
        fields == {"frequency_id", "source_id", "source_name", "start_date", "end_date"}
    IN  [j \in 1..n |->
            [k \in (DOMAIN entities) \cup fields |->
                CASE k = "frequency_id" -> 9 + ((j * sum) % 2)
                  [] k = "source_id" -> 20 + j
                  [] k = "source_name" -> "src"
                  [] k = "start_date" -> "1990-01-01"
                  [] k = "end_date" -> "1999-12-31"
                  [] OTHER -> entities[k]]]

\* get_source_ranking(series): source ids for a selection, best first
get_source_ranking(series) ==
    LET n == (SumIds(series) + Cardinality(DOMAIN series) + 1) % (MaxSources + 1)
    IN  [i \in 1..n |-> 10 + n + 1 - i]

----------------------------------------------------------------------------
(* rank_series_by_source: the ranking generator. *)

SourceFields == {"source_id", "source_name"}

StripSourceIdOnly(series) == Without(series, {"source_id"})

\* a selection without the fields that name a source
StripSource(series) == Without(series, SourceFields)

RECURSIVE Unique(_)
\* the distinct elements of a list, each at its first occurrence
Unique(seq) ==
    IF seq = <<>> THEN <<>>
    ELSE LET r == Unique(Front(seq))
         IN  IF \E i \in 1..Len(r) : r[i] = Last(seq) THEN r ELSE Append(r, Last(seq))

\* "for each unique combination excluding source": the selections to rank
UniqueSelections(list) == Unique([i \in 1..Len(list) |-> StripSource(list[i])])

\* one output item: a copy of the selection with the ranked source
WithSource(series, source_id) == Put(series, "source_id", source_id)

RankerForwardsReversed(list) == [i \in 1..Len(list) |-> list[Len(list) + 1 - i]]

\* GroClient.rank_series_by_source hands its argument to lib.rank_series_by_source
RankerArgument(list) == list

\* The first next(): the body starts and collects the selections to rank.
RankStart ==
    /\ pc = "rank" /\ want /\ ~rk_started
    /\ rk_started' = TRUE
    /\ rk_todo' = UniqueSelections(selections_list)
    /\ UNCHANGED <<elsewhere, kwargs, dirHits, pc, want, findVars, rankerLog, selections_list,
                   rk_cur, rk_srcs, rankLog, out>>

\* The sources of the current selection are used up: rank the next selection.
RankCall ==
    /\ pc = "rank" /\ want /\ rk_started
    /\ rk_srcs = <<>> /\ rk_todo # <<>>
    /\ rankLog' = Append(rankLog, Head(rk_todo))
    /\ rk_cur' = Head(rk_todo)
    /\ rk_srcs' = get_source_ranking(Head(rk_todo))
    /\ rk_todo' = Tail(rk_todo)
    /\ UNCHANGED <<elsewhere, kwargs, dirHits, pc, want, findVars, rankerLog, selections_list,
                   rk_started, out>>

\* yield series_with_source: the consumer gets one item and the generator rests.
RankYield ==
    /\ pc = "rank" /\ want /\ rk_started
    /\ rk_srcs # <<>>
    /\ out' = Append(out, WithSource(rk_cur, Head(rk_srcs)))
    /\ rk_srcs' = Tail(rk_srcs)
    /\ pc' = "yielded"
    /\ want' = FALSE
    /\ UNCHANGED <<elsewhere, kwargs, dirHits, findVars, rankerLog, selections_list, rk_started,
                   rk_todo, rk_cur, rankLog>>

\* the generator returns at the first selection that ranks to no source
RankStopAtEmptyRanking ==
    /\ pc = "rank" /\ want /\ rk_started
    /\ rk_srcs = <<>>
    /\ rk_todo = <<>> \/ (rankLog # <<>> /\ get_source_ranking(rk_cur) = <<>>)
    /\ pc' = "done"
    /\ want' = FALSE
    /\ UNCHANGED <<elsewhere, kwargs, dirHits, findVars, rankerLog, rankVars, out>>

\* Nothing is left: the generator returns (StopIteration).
RankStop ==
    /\ pc = "rank" /\ want /\ rk_started
    /\ rk_srcs = <<>> /\ rk_todo = <<>>
    /\ pc' = "done"
    /\ want' = FALSE
    /\ UNCHANGED <<elsewhere, kwargs, dirHits, findVars, rankerLog, rankVars, out>>

----------------------------------------------------------------------------
(* The consumer of a generator. *)

\* next(generator)
Pull ==
    /\ ~want /\ pc \in {"created", "ranker", "yielded"}
    /\ want' = TRUE
    /\ pc' = IF pc = "created" THEN "search_item" ELSE "rank"
    /\ UNCHANGED <<elsewhere, kwargs, dirHits, findVars, rankerLog, rankVars, out>>

\* the consumer drops the generator without reading further
Close ==
    /\ ~want /\ pc \in {"created", "ranker", "yielded"}
    /\ pc' = "closed"
    /\ UNCHANGED <<elsewhere, kwargs, dirHits, want, findVars, rankerLog, rankVars, out>>

----------------------------------------------------------------------------
(* GroClient.find_data_series *)

\* one "if kwargs.get(role): search ... keys.append(...)" block
SearchRole(r, here, next) ==
    /\ pc = here /\ want
    /\ IF Truthy(kwargs, r)
       THEN /\ search_results' =
                    Append(search_results, Slice(search(r), MAX_RESULT_COMBINATION_DEPTH))
            /\ keys' = Append(keys, r \o "_id")
            /\ searchLog' = Append(searchLog, <<ENTITY_TYPE[r], kwargs[r]>>)
       ELSE UNCHANGED <<search_results, keys, searchLog>>
    /\ pc' = next
    /\ UNCHANGED <<elsewhere, kwargs, dirHits, want, combIdx, all_data_series, listLog, rankerLog,
                   rankVars, out>>

SearchItem == SearchRole("item", "search_item", "search_metric")

SearchMetric == SearchRole("metric", "search_metric", "search_region")

SearchRegion == SearchRole("region", "search_region", "search_partner")

SearchPartner == SearchRole("partner_region", "search_partner", "product")

StampStartOnly(data_series) ==
    IF Truthy(kwargs, "start_date")
    THEN Put(data_series, "start_date", kwargs["start_date"])
    ELSE data_series

\* the dates of the criteria written over those of a series (client.py:689-692)
Stamp(data_series) ==
    LET s == IF Truthy(kwargs, "start_date")
             THEN Put(data_series, "start_date", kwargs["start_date"])
             ELSE data_series
    IN  IF Truthy(kwargs, "end_date") THEN Put(s, "end_date", kwargs["end_date"]) ELSE s

\* entities of the tuple comb
Entities(comb) == DictZip(keys, [i \in 1..Len(comb) |-> comb[i].id])

\* one pass of the loop that ranks the series of its own tuple
ProductStepRankingEach ==
    /\ pc = "product" /\ want
    /\ combIdx <= Len(Product(search_results))
    /\ LET entities == Entities(Product(search_results)[combIdx])
           data_series_list == get_data_series(entities)
           stamped == [i \in 1..Len(data_series_list) |-> Stamp(data_series_list[i])]
       IN  /\ listLog' = Append(listLog, entities)
           /\ all_data_series' = all_data_series \o stamped
           /\ rankerLog' = Append(rankerLog, stamped)
    /\ combIdx' = combIdx + 1
    /\ UNCHANGED <<elsewhere, kwargs, dirHits, pc, want, search_results, keys, searchLog,
                   rankVars, out>>

\* one pass of "for comb in itertools.product(*search_results)"
ProductStep ==
    /\ pc = "product" /\ want
    /\ combIdx <= Len(Product(search_results))
    /\ LET entities == Entities(Product(search_results)[combIdx])
           data_series_list == get_data_series(entities)
       IN  /\ listLog' = Append(listLog, entities)
           /\ all_data_series' = all_data_series \o
                    [i \in 1..Len(data_series_list) |-> Stamp(data_series_list[i])]
    /\ combIdx' = combIdx + 1
    /\ UNCHANGED <<elsewhere, kwargs, dirHits, pc, want, search_results, keys, searchLog,
                   rankerLog, rankVars, out>>

\* the ranking is started once the first tuple of the product has been listed
CallRankerAfterFirstTuple ==
    /\ pc = "product" /\ want
    /\ combIdx > Min(1, Len(Product(search_results)))
    /\ rankerLog' = Append(rankerLog, all_data_series)
    /\ selections_list' = RankerArgument(all_data_series)
    /\ rk_started' = FALSE
    /\ rk_todo' = <<>> /\ rk_cur' = EmptyDict /\ rk_srcs' = <<>>
    /\ pc' = "rank"
    /\ UNCHANGED <<elsewhere, kwargs, dirHits, want, findVars, rankLog, out>>

\* the whole ranking is drawn at once, as list(...) around the call would
CallRankerEager ==
    /\ pc = "product" /\ want
    /\ combIdx > Len(Product(search_results))
    /\ rankerLog' = Append(rankerLog, all_data_series)
    /\ selections_list' = RankerArgument(all_data_series)
    /\ rk_started' = FALSE
    /\ rk_todo' = <<>> /\ rk_cur' = EmptyDict /\ rk_srcs' = <<>>
    /\ rankLog' = rankLog \o UniqueSelections(RankerArgument(all_data_series))
    /\ pc' = "rank"
    /\ UNCHANGED <<elsewhere, kwargs, dirHits, want, findVars, out>>

\* the product is used up: self.rank_series_by_source(all_data_series) (client.py:696)
CallRanker ==
    /\ pc = "product" /\ want
    /\ combIdx > Len(Product(search_results))
    /\ rankerLog' = Append(rankerLog, all_data_series)
    /\ selections_list' = RankerArgument(all_data_series)
    /\ rk_started' = FALSE
    /\ rk_todo' = <<>> /\ rk_cur' = EmptyDict /\ rk_srcs' = <<>>
    /\ pc' = "rank"
    /\ UNCHANGED <<elsewhere, kwargs, dirHits, want, findVars, rankLog, out>>

----------------------------------------------------------------------------
(* States in which one part of the client is not in use. *)

\* no thread calls convert_unit
NoConversion ==
    /\ points = <<>> /\ cu_pc = <<>> /\ cu_targets = <<>>
    /\ cu_from = <<>> /\ cu_to = <<>> /\ cu_result = <<>>
    /\ cu_lookups = <<>> /\ cu_trace = <<>>
    /\ cu_given = <<>> /\ cu_original = <<>>

\* get_descendant_regions is not called
NoRegionCall ==
    /\ rg_known = FALSE /\ rg_descendants = <<>> /\ rg_historical = {}
    /\ rg_pc = "unused" /\ rg_opts = EmptyDict /\ rg_call = <<>>
    /\ rg_requests = <<>> /\ rg_lookups = <<>> /\ rg_result = <<>>

\* the saved series of the client are not in use
NoClient ==
    /\ heap = <<>> /\ self_data_series_list = <<>> /\ self_data_series_queue = <<>>
    /\ self_data_frame = <<>> /\ fetchLog = <<>> /\ op = "unused"
    /\ show_revisions = FALSE /\ before = <<>> /\ last = <<>>

\* get_data_points is not called
NoPoints == gp_selections = EmptyDict /\ gp_pc = "unused" /\ gp_result = <<>>

\* no generator of find_data_series or rank_series_by_source exists
NoGenerator ==
    /\ kwargs = EmptyDict
    /\ dirHits = [r \in RoleSet |-> 0]
    /\ pc = "unused" /\ want = FALSE
    /\ search_results = <<>> /\ keys = <<>> /\ combIdx = 1 /\ all_data_series = <<>>
    /\ searchLog = <<>> /\ listLog = <<>> /\ rankerLog = <<>>
    /\ selections_list = <<>> /\ rk_started = FALSE
    /\ rk_todo = <<>> /\ rk_cur = EmptyDict /\ rk_srcs = <<>>
    /\ rankLog = <<>> /\ out = <<>>

----------------------------------------------------------------------------
(* Specifications. *)

TextValues == {"", "Corn"}

DateValues == {"2017-01-01"}

OptionalDicts(ks, vals) == UNION {[sub -> vals] : sub \in SUBSET ks}

\* find_data_series called with any criteria, against any directory
Init ==
    /\ \E roles \in OptionalDicts(RoleSet, TextValues) :
       \E dates \in OptionalDicts({"start_date", "end_date"}, DateValues) :
          kwargs = [k \in (DOMAIN roles) \cup (DOMAIN dates) |->
                        IF k \in DOMAIN roles THEN roles[k] ELSE dates[k]]
    /\ dirHits \in [RoleSet -> 0..MaxHits]
    /\ \A r \in RoleSet : ~Truthy(kwargs, r) => dirHits[r] = 0
    /\ pc = "created" /\ want = FALSE
    /\ search_results = <<>> /\ keys = <<>> /\ combIdx = 1 /\ all_data_series = <<>>
    /\ searchLog = <<>> /\ listLog = <<>> /\ rankerLog = <<>>
    /\ selections_list = <<>> /\ rk_started = FALSE
    /\ rk_todo = <<>> /\ rk_cur = EmptyDict /\ rk_srcs = <<>>
    /\ rankLog = <<>> /\ out = <<>>
    /\ NoConversion /\ NoRegionCall /\ NoClient /\ NoPoints

Next ==
    \/ Pull \/ Close
    \/ SearchItem \/ SearchMetric \/ SearchRegion \/ SearchPartner
    \/ ProductStep \/ CallRanker
    \/ RankStart \/ RankCall \/ RankYield \/ RankStop

Spec == Init /\ [][Next]_vars

\* selections a caller of rank_series_by_source may pass: with and without the
\* fields of a source, equal up to those fields, and ranked to different numbers
\* of sources
SelA == [item_id |-> 4, metric_id |-> 1, region_id |-> 1,
         source_id |-> 123, source_name |-> "dontcare"]

SelA2 == [item_id |-> 4, metric_id |-> 1, region_id |-> 1, source_id |-> 11]

SelB == [item_id |-> 2, metric_id |-> 1, region_id |-> 1]

SelC == [item_id |-> 1, metric_id |-> 1, region_id |-> 3, source_name |-> "dontcare"]

SelD == [item_id |-> 3, metric_id |-> 2, region_id |-> 1, frequency_id |-> 9]

SampleSelections == {SelA, SelA2, SelB, SelC, SelD}

SeqsUpTo(S, n) == UNION {[1..m -> S] : m \in 0..n}

\* rank_series_by_source called directly with any list of selections
InitRank ==
    /\ kwargs = EmptyDict
    /\ dirHits = [r \in RoleSet |-> 0]
    /\ pc = "ranker" /\ want = FALSE
    /\ search_results = <<>> /\ keys = <<>> /\ combIdx = 1 /\ all_data_series = <<>>
    /\ searchLog = <<>> /\ listLog = <<>>
    /\ \E input \in SeqsUpTo(SampleSelections, MaxSelections) :
          /\ rankerLog = <<input>>
          /\ selections_list = RankerArgument(input)
    /\ rk_started = FALSE
    /\ rk_todo = <<>> /\ rk_cur = EmptyDict /\ rk_srcs = <<>>
    /\ rankLog = <<>> /\ out = <<>>
    /\ NoConversion /\ NoRegionCall /\ NoClient /\ NoPoints

NextRank == Pull \/ Close \/ RankStart \/ RankCall \/ RankYield \/ RankStop

SpecRank == InitRank /\ [][NextRank]_vars

----------------------------------------------------------------------------
(* Numbers.  A python float is modelled as an exact fraction <<n, d>> in    *)
(* lowest terms with d > 0, so that equal numbers are equal values.         *)

None == <<>>

Some(x) == <<x>>

\* d.get(k) of a dict whose values are None or Some(x)
Get(d, k) == IF k \in DOMAIN d THEN d[k] ELSE None

\* d.get(k) of a dict that holds no None
GetSome(d, k) == IF k \in DOMAIN d THEN Some(d[k]) ELSE None

Abs(n) == IF n < 0 THEN -n ELSE n

RECURSIVE GCD(_, _)
GCD(a, b) == IF b = 0 THEN a ELSE GCD(b, a % b)

Frac(n, d) ==
    LET g == GCD(Abs(n), Abs(d))
        s == IF d < 0 THEN -1 ELSE 1
    IN  <<(s * n) \div g, (s * d) \div g>>

Num(n) == <<n, 1>>

Mul(a, b) == Frac(a[1] * b[1], a[2] * b[2])

Add(a, b) == Frac(a[1] * b[2] + b[1] * a[2], a[2] * b[2])

Sub(a, b) == Frac(a[1] * b[2] - b[1] * a[2], a[2] * b[2])

\* integer division, as a / b is between python 2 ints
DivFloor(a, b) ==
    LET q == Frac(a[1] * b[2], a[2] * b[1]) IN Num(q[1] \div q[2])

\* float(a) / b
Div(a, b) == Frac(a[1] * b[2], a[2] * b[1])

----------------------------------------------------------------------------
(* GroClient.convert_unit *)

\* largest value of a point before any conversion
MaxPointValue == 2
\* most calls of convert_unit one caller makes on its point, one after another
MaxConversions == 2

\* self.lookup('units', unit_id): units that convert, with and without an
\* offset; a unit of factor zero; a unit whose conversion record holds no
\* factor; and a unit with no conversion record
Units == <<
    [id |-> 1, baseConvFactor |-> [factor |-> Num(1)]],
    [id |-> 2, baseConvFactor |-> [factor |-> Num(1000), offset |-> Num(0)]],
    [id |-> 3, baseConvFactor |-> [factor |-> Frac(5, 9), offset |-> Num(32)]],
    [id |-> 4, baseConvFactor |-> [factor |-> Num(0), offset |-> Num(0)]],
    [id |-> 5, baseConvFactor |-> [offset |-> Num(1)]],
    [id |-> 6] >>

UnitIds == DOMAIN Units

lookup_units(unit_id) == Units[unit_id]

Threads == {1, 2}

\* calls one caller makes: one each when several run at once
CallsAllowed == IF Len(points) > 1 THEN 1 ELSE MaxConversions

NoResult == [kind |-> "none", unit |-> 0, ref |-> 0]

\* the call of thread t ends by raising
Raise(t, kind, unit) ==
    /\ cu_result' = [cu_result EXCEPT ![t] = [kind |-> kind, unit |-> unit, ref |-> 0]]
    /\ cu_pc' = [cu_pc EXCEPT ![t] = "idle"]

\* the call of thread t ends by returning its point object
Return(t) ==
    /\ cu_result' = [cu_result EXCEPT ![t] = [kind |-> "return", unit |-> 0, ref |-> t]]
    /\ cu_pc' = [cu_pc EXCEPT ![t] = "idle"]

Step(t, here) ==
    /\ t \in DOMAIN points
    /\ cu_pc[t] = here
    /\ cu_trace' = [cu_trace EXCEPT ![t] = Append(@, here)]
    /\ UNCHANGED <<genVars, regionVars, clientVars, pointsVars>>

\* thread t calls convert_unit(point, target_unit_id) on its point
Call(t) ==
    /\ t \in DOMAIN points
    /\ cu_pc[t] = "idle"
    /\ Len(cu_targets[t]) < CallsAllowed
    /\ \E target_unit_id \in UnitIds :
          cu_targets' = [cu_targets EXCEPT ![t] = Append(@, target_unit_id)]
    /\ cu_pc' = [cu_pc EXCEPT ![t] = "same_unit"]
    /\ cu_given' = [cu_given EXCEPT ![t] = points[t]]
    /\ cu_result' = [cu_result EXCEPT ![t] = NoResult]
    /\ cu_lookups' = [cu_lookups EXCEPT ![t] = <<>>]
    /\ cu_trace' = [cu_trace EXCEPT ![t] = <<>>]
    /\ cu_from' = [cu_from EXCEPT ![t] = None]
    /\ cu_to' = [cu_to EXCEPT ![t] = None]
    /\ UNCHANGED <<points, cu_original, genVars, regionVars, clientVars, pointsVars>>

\* the test for a point without a unit only
IsNoUnit(point, target_unit_id) ==
    Get(point, "unit_id") = None

\* point.get('unit_id') is None or point.get('unit_id') == target_unit_id
IsSameUnit(point, target_unit_id) ==
    Get(point, "unit_id") = None \/ Get(point, "unit_id") = Some(target_unit_id)

\* if ...: return point (client.py:878-879)
SameUnit(t) ==
    /\ Step(t, "same_unit")
    /\ IF IsSameUnit(points[t], Last(cu_targets[t]))
       THEN Return(t)
       ELSE /\ cu_pc' = [cu_pc EXCEPT ![t] = "from"]
            /\ UNCHANGED cu_result
    /\ UNCHANGED <<points, cu_targets, cu_from, cu_to, cu_lookups, cu_given, cu_original>>

\* not convert_factor.get('factor')
NoFactor(convert_factor) ==
    GetSome(convert_factor, "factor") \in {None, Some(Num(0))}

\* the factor read is kept in one place that every call in progress uses
FetchShared(t, unit_id, next) ==
    LET convert_factor == GetSome(lookup_units(unit_id), "baseConvFactor")
    IN  /\ cu_lookups' = [cu_lookups EXCEPT ![t] = Append(@, unit_id)]
        /\ IF convert_factor = None
           THEN /\ Raise(t, "AttributeError", 0)
                /\ UNCHANGED <<cu_from, cu_to>>
           ELSE IF NoFactor(convert_factor[1])
           THEN /\ Raise(t, "Exception", unit_id)
                /\ UNCHANGED <<cu_from, cu_to>>
           ELSE /\ IF next = "to"
                   THEN cu_from' = [x \in DOMAIN cu_from |-> convert_factor]
                        /\ UNCHANGED cu_to
                   ELSE cu_to' = [x \in DOMAIN cu_to |-> convert_factor]
                        /\ UNCHANGED cu_from
                /\ cu_pc' = [cu_pc EXCEPT ![t] = next]
                /\ UNCHANGED cu_result

\* self.lookup('units', unit_id).get('baseConvFactor') is read and tested: the
\* test raises AttributeError on None, the named exception on a factor that is
\* missing or zero
Fetch(t, unit_id, next) ==
    LET convert_factor == GetSome(lookup_units(unit_id), "baseConvFactor")
    IN  /\ cu_lookups' = [cu_lookups EXCEPT ![t] = Append(@, unit_id)]
        /\ IF convert_factor = None
           THEN /\ Raise(t, "AttributeError", 0)
                /\ UNCHANGED <<cu_from, cu_to>>
           ELSE IF NoFactor(convert_factor[1])
           THEN /\ Raise(t, "Exception", unit_id)
                /\ UNCHANGED <<cu_from, cu_to>>
           ELSE /\ IF next = "to"
                   THEN cu_from' = [cu_from EXCEPT ![t] = convert_factor]
                        /\ UNCHANGED cu_to
                   ELSE cu_to' = [cu_to EXCEPT ![t] = convert_factor]
                        /\ UNCHANGED cu_from
                /\ cu_pc' = [cu_pc EXCEPT ![t] = next]
                /\ UNCHANGED cu_result

\* the target unit_id is written before the factors are tested
FromStampingTarget(t) ==
    /\ Step(t, "from")
    /\ Fetch(t, points[t]["unit_id"][1], "to")
    /\ points' = [points EXCEPT ![t] = Put(@, "unit_id", Some(Last(cu_targets[t])))]
    /\ UNCHANGED <<cu_targets, cu_given, cu_original>>

\* from_convert_factor (client.py:880-886)
From(t) ==
    /\ Step(t, "from")
    /\ Fetch(t, points[t]["unit_id"][1], "to")
    /\ UNCHANGED <<points, cu_targets, cu_given, cu_original>>

\* the value is multiplied by the source's factor before the target's factor is
\* tested
ToAfterBaseValue(t) ==
    /\ Step(t, "to")
    /\ Fetch(t, Last(cu_targets[t]), "value")
    /\ points' = [points EXCEPT ![t] =
            IF Get(@, "value") # None
            THEN Put(@, "value", Some(Mul(@["value"][1], cu_from[t][1]["factor"])))
            ELSE @]
    /\ UNCHANGED <<cu_targets, cu_given, cu_original>>

\* to_convert_factor (client.py:887-893)
To(t) ==
    /\ Step(t, "to")
    /\ Fetch(t, Last(cu_targets[t]), "value")
    /\ UNCHANGED <<points, cu_targets, cu_given, cu_original>>

\* 'value' in point
HasValueKey(point) == "value" \in DOMAIN point

\* point.get('value') is not None
HasValue(point) == Get(point, "value") # None

\* convert_factor.get('offset', 1)
OffsetOfDefaultOne(convert_factor) ==
    IF "offset" \in DOMAIN convert_factor THEN convert_factor["offset"] ELSE Num(1)

\* convert_factor.get('offset', 0)
OffsetOf(convert_factor) ==
    IF "offset" \in DOMAIN convert_factor THEN convert_factor["offset"] ELSE Num(0)

\* the value in the target unit (client.py:895-900)
Converted(value, from_convert_factor, to_convert_factor) ==
    LET value_in_base_unit ==
            Add(Mul(value, from_convert_factor["factor"]), OffsetOf(from_convert_factor))
    IN  Div(Sub(value_in_base_unit, OffsetOf(to_convert_factor)),
            to_convert_factor["factor"])

\* if point.get('value') is not None: point['value'] = ... (client.py:894-900);
\* arithmetic on a value that is None raises TypeError
WriteValue(t) ==
    /\ Step(t, "value")
    /\ IF ~HasValue(points[t])
       THEN /\ cu_pc' = [cu_pc EXCEPT ![t] = "unit"]
            /\ UNCHANGED <<points, cu_result>>
       ELSE IF Get(points[t], "value") = None
       THEN /\ Raise(t, "TypeError", 0)
            /\ UNCHANGED points
       ELSE /\ points' = [points EXCEPT ![t] =
                    Put(@, "value", Some(Converted(@["value"][1], cu_from[t][1], cu_to[t][1])))]
            /\ cu_pc' = [cu_pc EXCEPT ![t] = "unit"]
            /\ UNCHANGED cu_result
    /\ UNCHANGED <<cu_targets, cu_from, cu_to, cu_lookups, cu_given, cu_original>>

\* point['unit_id'] = target_unit_id; return point (client.py:901-902)
WriteUnit(t) ==
    /\ Step(t, "unit")
    /\ points' = [points EXCEPT ![t] = Put(@, "unit_id", Some(Last(cu_targets[t])))]
    /\ Return(t)
    /\ UNCHANGED <<cu_targets, cu_from, cu_to, cu_lookups, cu_given, cu_original>>

\* values and unit ids a point may hold, None among them
PointValues == {None} \cup {Some(Num(n)) : n \in 0..MaxPointValue}

PointUnits == {None} \cup {Some(u) : u \in UnitIds}

\* data points as the API returns them, with or without a value and a unit
Points ==
    {[k \in {"start_date"} \cup ks |->
         CASE k = "start_date" -> "2017-01-01"
           [] k = "value" -> v
           [] k = "unit_id" -> u] :
       ks \in SUBSET {"value", "unit_id"}, v \in PointValues, u \in PointUnits}

\* the threads over the given point objects, none of them in a call
Callers(objects) ==
    /\ points = objects
    /\ cu_pc = [t \in DOMAIN objects |-> "idle"]
    /\ cu_targets = [t \in DOMAIN objects |-> <<>>]
    /\ cu_from = [t \in DOMAIN objects |-> None]
    /\ cu_to = [t \in DOMAIN objects |-> None]
    /\ cu_result = [t \in DOMAIN objects |-> NoResult]
    /\ cu_lookups = [t \in DOMAIN objects |-> <<>>]
    /\ cu_trace = [t \in DOMAIN objects |-> <<>>]
    /\ cu_given = objects
    /\ cu_original = objects

\* one caller converts any point, and then what it got back
InitConvert ==
    /\ NoGenerator /\ NoRegionCall /\ NoClient /\ NoPoints
    /\ \E point \in Points : Callers(<<point>>)

NextConvert ==
    \E t \in Threads :
        \/ Call(t)
        \/ SameUnit(t)
        \/ From(t)
        \/ To(t)
        \/ WriteValue(t)
        \/ WriteUnit(t)

SpecConvert == InitConvert /\ [][NextConvert]_vars

----------------------------------------------------------------------------
(* What the claims speak of. *)

\* no role of the criteria has a text
NoRoleText == \A r \in RoleSet : ~Truthy(kwargs, r)

\* the roles of the criteria that have a text, in the order the code asks for them
PresentRoles == SelectSeq(Roles, LAMBDA r : Truthy(kwargs, r))

\* the four "if kwargs.get(...)" blocks are behind the generator
SearchesDone == pc \in {"product", "rank", "yielded", "done"} \/ rankerLog # <<>>

\* rank_series_by_source has been called
Ranked == rankerLog # <<>>

RECURSIVE ProdLen(_)
\* the product of the lengths of the lists of a list
ProdLen(lists) == IF lists = <<>> THEN 1 ELSE Len(Head(lists)) * ProdLen(Tail(lists))

\* candidates the code keeps for a role
CandidateCount(r) == Min(dirHits[r], MAX_RESULT_COMBINATION_DEPTH)

RECURSIVE ProdCount(_)
ProdCount(rs) == IF rs = <<>> THEN 1 ELSE CandidateCount(Head(rs)) * ProdCount(Tail(rs))

\* tuples in which the candidate of the role at position p stays the same when
\* the roles after it vary fastest, and when the roles before it do
WeightAfter(p) == ProdLen(SubSeq(search_results, p + 1, Len(search_results)))

WeightBefore(p) == ProdLen(SubSeq(search_results, 1, p - 1))

\* the i-th selection of the enumeration of the candidates in which the last role
\* varies fastest, or the first one
Enumerated(i, lastFastest) ==
    [k \in {keys[p] : p \in 1..Len(keys)} |->
        LET p == CHOOSE q \in 1..Len(keys) : keys[q] = k
            c == search_results[p]
            w == IF lastFastest THEN WeightAfter(p) ELSE WeightBefore(p)
        IN  c[(((i - 1) \div w) % Len(c)) + 1].id]

\* what get_data_series returned for a selection, with the dates of the criteria
Stamped(entities) ==
    LET l == get_data_series(entities)
    IN  [i \in 1..Len(l) |->
            LET a == IF Truthy(kwargs, "start_date")
                     THEN Put(l[i], "start_date", kwargs["start_date"]) ELSE l[i]
            IN  IF Truthy(kwargs, "end_date")
                THEN Put(a, "end_date", kwargs["end_date"]) ELSE a]

----------------------------------------------------------------------------
(* Claims about find_data_series. *)

\* C1: find_data_series called with no role text yields an empty sequence and
\* never calls search or get_data_series.
C1_NoRoleNoCalls ==
    NoRoleText => (searchLog = <<>> /\ listLog = <<>> /\ out = <<>>)

\* C2 as stated: the candidate selections are enumerated in the order of the
\* product that varies the first present role fastest.
C2_FirstRoleFastest ==
    SearchesDone =>
        \A i \in 1..Len(listLog) : listLog[i] = Enumerated(i, FALSE)

\* C2 as amended: the candidate selections are enumerated in the order of the
\* product that varies the last present role fastest and the first present role
\* slowest; the order is a function of the search results alone.
C2_LastRoleFastest ==
    SearchesDone =>
        \A i \in 1..Len(listLog) : listLog[i] = Enumerated(i, TRUE)

C2_Witness ==
    /\ pc = "done"
    /\ Len(keys) >= 2
    /\ Len(listLog) >= 4
    /\ Enumerated(2, TRUE) # Enumerated(2, FALSE)

\* C3: with at least one role present, once the ranker is called the number of
\* get_data_series calls is the product of the per-role candidate counts, no
\* candidate selection was asked for twice, and every one holds exactly one id
\* of every present role, taken from the candidates of that role.
C3_ProductComplete ==
    ~NoRoleText =>
        LET present == {r \in RoleSet : Truthy(kwargs, r)}
            count == ProdCount(PresentRoles)
            candidates == [r \in present |->
                              {search(r)[n].id : n \in 1..CandidateCount(r)}]
        IN  /\ Len(listLog) <= count
            /\ Ranked => Len(listLog) = count
            /\ Cardinality({listLog[i] : i \in 1..Len(listLog)}) = Len(listLog)
            /\ \A i \in 1..Len(listLog) :
                  /\ DOMAIN listLog[i] = {r \o "_id" : r \in present}
                  /\ \A r \in present : listLog[i][r \o "_id"] \in candidates[r]

C3_Witness ==
    /\ Ranked
    /\ Len(PresentRoles) = 2
    /\ \E r \in RoleSet : Truthy(kwargs, r) /\ dirHits[r] > MAX_RESULT_COMBINATION_DEPTH
    /\ Len(listLog) = 4

\* C4: for every role present in the criteria the candidates are the first
\* min(K, n) results of its search, in search order; a role that is absent is not
\* searched for and gives no key to any candidate selection.
C4_TopKPerPresentRole ==
    SearchesDone =>
        /\ Len(search_results) = Len(PresentRoles)
        /\ keys = [p \in 1..Len(PresentRoles) |-> PresentRoles[p] \o "_id"]
        /\ searchLog = [p \in 1..Len(PresentRoles) |->
                            <<ENTITY_TYPE[PresentRoles[p]], kwargs[PresentRoles[p]]>>]
        /\ \A p \in 1..Len(PresentRoles) :
              search_results[p] =
                  [n \in 1..CandidateCount(PresentRoles[p]) |-> search(PresentRoles[p])[n]]
        /\ \A i \in 1..Len(listLog) : \A r \in RoleSet :
              ~Truthy(kwargs, r) => (r \o "_id") \notin DOMAIN listLog[i]

C4_Witness ==
    /\ pc = "done"
    /\ listLog # <<>>
    /\ \E r \in RoleSet : Truthy(kwargs, r) /\ dirHits[r] > MAX_RESULT_COMBINATION_DEPTH
    /\ \E r \in RoleSet : r \notin DOMAIN kwargs
    /\ \E r \in RoleSet : r \in DOMAIN kwargs /\ kwargs[r] = ""

\* a present role whose search finds nothing
ZeroHitRole == \E r \in RoleSet : Truthy(kwargs, r) /\ dirHits[r] = 0

\* C5: when the search of a present role finds nothing, get_data_series is never
\* called, nothing is handed to the ranker and nothing is yielded, whatever the
\* other roles found.
C5_EmptySearchEmptyProduct ==
    ZeroHitRole =>
        /\ listLog = <<>>
        /\ out = <<>>
        /\ rankLog = <<>>
        /\ \A i \in 1..Len(rankerLog) : rankerLog[i] = <<>>

C5_Witness ==
    /\ ZeroHitRole
    /\ \E r \in RoleSet : Truthy(kwargs, r) /\ dirHits[r] > 0
    /\ pc = "done"

\* the dates of the criteria are on a series
CarriesDates(series) ==
    /\ Truthy(kwargs, "start_date") =>
          "start_date" \in DOMAIN series /\ series["start_date"] = kwargs["start_date"]
    /\ Truthy(kwargs, "end_date") =>
          "end_date" \in DOMAIN series /\ series["end_date"] = kwargs["end_date"]

\* C6: every series handed to the ranker, and every selection sent to the ranking
\* endpoint, carries the start_date and end_date of the criteria in place of the
\* dates get_data_series returned.
C6_StampedBeforeRanking ==
    /\ \A i \in 1..Len(rankerLog) : \A j \in 1..Len(rankerLog[i]) :
          CarriesDates(rankerLog[i][j])
    /\ \A i \in 1..Len(rankLog) : CarriesDates(rankLog[i])
    /\ \A i \in 1..Len(out) : CarriesDates(out[i])

C6_Witness ==
    /\ Truthy(kwargs, "start_date") /\ Truthy(kwargs, "end_date")
    /\ Ranked /\ Len(rankerLog[1]) >= 2
    /\ \E i \in 1..Len(listLog) : \E j \in 1..Len(get_data_series(listLog[i])) :
          get_data_series(listLog[i])[j]["start_date"] # kwargs["start_date"]
    /\ out # <<>>

\* C7: the ranker is called at most once, once when the generator ends, never
\* before the last get_data_series call, and on the series of all candidate
\* selections in the order of the calls, those of one selection in the order
\* get_data_series returned them.
C7_OneRankingPass ==
    /\ Len(rankerLog) <= 1
    /\ pc = "done" => Len(rankerLog) = 1
    /\ ~Ranked => rankLog = <<>>
    /\ Ranked =>
          /\ Len(listLog) = ProdLen(search_results)
          /\ rankerLog[1] = Concat([i \in 1..Len(listLog) |-> Stamped(listLog[i])])

C7_Witness ==
    /\ pc = "done"
    /\ Len(listLog) >= 2
    /\ \E i, j \in 1..Len(listLog) :
          i # j /\ Len(get_data_series(listLog[i])) = 2 /\ Len(get_data_series(listLog[j])) = 1
    /\ Len(out) >= 2

----------------------------------------------------------------------------
(* Claims about rank_series_by_source. *)

\* the list the caller gave to rank_series_by_source
Input == rankerLog[1]

\* the items a selection expands to: one per ranked source, best first
Expansion(series) ==
    LET sel == Without(series, {"source_id", "source_name"})
        ranking == get_source_ranking(sel)
    IN  [j \in 1..Len(ranking) |-> Put(sel, "source_id", ranking[j])]

\* the input selections that equal no earlier one once the source is left out
FirstOfItsKind(i) ==
    \A j \in 1..(i - 1) :
        Without(Input[j], {"source_id", "source_name"})
            # Without(Input[i], {"source_id", "source_name"})

RECURSIVE ExpandAll(_, _)
\* the expansions of the input selections from the i-th on: of every one, or of
\* the first of each kind only
ExpandAll(i, distinctOnly) ==
    IF i > Len(Input) THEN <<>>
    ELSE (IF distinctOnly /\ ~FirstOfItsKind(i) THEN <<>> ELSE Expansion(Input[i]))
            \o ExpandAll(i + 1, distinctOnly)

IsPrefix(a, b) == Len(a) <= Len(b) /\ a = SubSeq(b, 1, Len(a))

C9_SourceFieldsStripped ==
    /\ \A i \in 1..Len(rankLog) :
          "source_id" \notin DOMAIN rankLog[i] /\ "source_name" \notin DOMAIN rankLog[i]
    /\ \A i \in 1..Len(out) :
          /\ "source_name" \notin DOMAIN out[i]
          /\ "source_id" \in DOMAIN out[i]
          /\ \E j \in 1..Len(rankLog) :
                /\ rankLog[j] = Without(out[i], {"source_id"})
                /\ \E n \in 1..Len(get_source_ranking(rankLog[j])) :
                      out[i]["source_id"] = get_source_ranking(rankLog[j])[n]

C9_Witness ==
    /\ pc = "done"
    /\ \E i \in 1..Len(Input) : Input[i] = SelA
    /\ \E i \in 1..Len(Input) : Input[i] = SelC
    /\ \E i \in 1..Len(out) : out[i]["item_id"] = SelA["item_id"]

RECURSIVE CountAll(_, _)
\* the number of sources ranked for the input selections from the i-th on: for
\* every one, or for the first of each kind only
CountAll(i, distinctOnly) ==
    IF i > Len(Input) THEN 0
    ELSE (IF distinctOnly /\ ~FirstOfItsKind(i) THEN 0
          ELSE Len(get_source_ranking(Without(Input[i], {"source_id", "source_name"}))))
            + CountAll(i + 1, distinctOnly)

Requested == Len(out) + (IF want \/ pc = "done" THEN 1 ELSE 0)

RECURSIVE SourcesOf(_)
\* the number of items the first n ranking calls supply
SourcesOf(n) ==
    IF n = 0 THEN 0 ELSE Len(get_source_ranking(rankLog[n])) + SourcesOf(n - 1)

\* C11: the ranked output is lazy: a ranking call is issued only when the
\* selections ranked before it supply fewer items than the consumer has asked
\* for, so no selection lying after the last item read is ever ranked, whether
\* the consumer is resting or has dropped the generator.
C11_RankingOnDemand ==
    /\ rankLog # <<>> => SourcesOf(Len(rankLog) - 1) < Requested
    /\ (pc \in {"yielded", "closed"} /\ out # <<>>) =>
          /\ rankLog # <<>>
          /\ Last(rankLog) = Without(Last(out), {"source_id"})

C11_Witness ==
    /\ pc = "closed"
    /\ Len(out) = 1
    /\ Len(rankLog) = 1
    /\ rk_todo # <<>>

\* points of a response of get_data_points: in units that convert, in a unit
\* with no conversion record, without a unit, without a value
SamplePoints == {
    [start_date |-> "2017-01-01", value |-> Some(Num(1)), unit_id |-> Some(1)],
    [start_date |-> "2017-01-01", value |-> Some(Num(2)), unit_id |-> Some(2)],
    [start_date |-> "2017-01-01", value |-> None, unit_id |-> Some(3)],
    [start_date |-> "2017-01-01", value |-> Some(Num(1)), unit_id |-> Some(6)],
    [start_date |-> "2017-01-01", value |-> Some(Num(1)), unit_id |-> None] }

\* several callers at once, each converting a point object of its own
InitConcurrent ==
    /\ NoGenerator /\ NoRegionCall /\ NoClient /\ NoPoints
    /\ \E objects \in [Threads -> SamplePoints] : Callers(objects)

SpecConcurrent == InitConcurrent /\ [][NextConvert]_vars

----------------------------------------------------------------------------
(* Claims on convert_unit. *)

\* thread t has called convert_unit
HasCalled(t) == cu_targets[t] # <<>>

\* the last call of thread t has ended
Finished(t) == HasCalled(t) /\ cu_pc[t] = "idle"

Target(t) == Last(cu_targets[t])

GivenUnit(t) == Get(cu_given[t], "unit_id")

GivenValue(t) == Get(cu_given[t], "value")

\* the call returned the object it was given
Returned(t) == cu_result[t] = [kind |-> "return", unit |-> 0, ref |-> t]

\* C12: a call on a point whose unit_id is null or equal to the target looks up
\* no unit, raises nothing and returns the point as it was given, whatever the
\* value and whether or not the unit has a conversion factor.
C12_SameUnitUntouched ==
    \A t \in DOMAIN points :
        (HasCalled(t) /\ (GivenUnit(t) = None \/ GivenUnit(t) = Some(Target(t)))) =>
            /\ cu_lookups[t] = <<>>
            /\ points[t] = cu_given[t]
            /\ cu_result[t].kind \in {"none", "return"}
            /\ Finished(t) => Returned(t)

C12_Witness ==
    \E t \in DOMAIN points :
        /\ Finished(t)
        /\ GivenUnit(t) = Some(6) /\ Target(t) = 6
        /\ "value" \in DOMAIN cu_given[t] /\ GivenValue(t) = None
        /\ "baseConvFactor" \notin DOMAIN lookup_units(6)

\* the unit has no conversion record, or the record holds no factor or factor zero
NonConvertible(unit_id) ==
    \/ "baseConvFactor" \notin DOMAIN Units[unit_id]
    \/ "factor" \notin DOMAIN Units[unit_id]["baseConvFactor"]
    \/ Units[unit_id]["baseConvFactor"]["factor"] = Num(0)

\* the call of thread t is one that has to convert: the point has a unit and it
\* is not the target
MustConvert(t) ==
    HasCalled(t) /\ GivenUnit(t) # None /\ GivenUnit(t) # Some(Target(t))

\* C13: a call that has to convert, from or to a unit that is not convertible,
\* ends by raising the exception that names a unit of the two that is not
\* convertible; it does no arithmetic and returns no point.
C13_NonConvertibleNamed ==
    \A t \in DOMAIN points :
        (MustConvert(t) /\ Finished(t)
            /\ (NonConvertible(GivenUnit(t)[1]) \/ NonConvertible(Target(t)))) =>
            /\ cu_result[t].kind = "Exception"
            /\ cu_result[t].unit \in {u \in {GivenUnit(t)[1], Target(t)} : NonConvertible(u)}
            /\ \A i \in 1..Len(cu_trace[t]) : cu_trace[t][i] # "value"
            /\ points[t] = cu_given[t]

\* factor and offset of a convertible unit, a missing offset taken as 0
FactorOfUnit(unit_id) == Units[unit_id]["baseConvFactor"]["factor"]

OffsetOfUnit(unit_id) ==
    IF "offset" \in DOMAIN Units[unit_id]["baseConvFactor"]
    THEN Units[unit_id]["baseConvFactor"]["offset"]
    ELSE Num(0)

\* the call of thread t has to convert and both its units are convertible
Converts(t) ==
    MustConvert(t) /\ ~NonConvertible(GivenUnit(t)[1]) /\ ~NonConvertible(Target(t))

\* every field but value and unit_id is as it was given
OtherFieldsKept(t) ==
    /\ DOMAIN points[t] \ {"value", "unit_id"} = DOMAIN cu_given[t] \ {"value", "unit_id"}
    /\ \A k \in DOMAIN cu_given[t] \ {"value", "unit_id"} : points[t][k] = cu_given[t][k]

\* C14: a finished call between convertible units on a point with a value
\* returns the point with value ((value * from.factor + from.offset) -
\* to.offset) / to.factor, a missing offset taken as 0, with unit_id the target
\* and every other field as given.
C14_ConvertedValue ==
    \A t \in DOMAIN points :
        (Converts(t) /\ Finished(t) /\ GivenValue(t) # None) =>
            /\ Returned(t)
            /\ Get(points[t], "value") =
                  Some(Div(Sub(Add(Mul(GivenValue(t)[1], FactorOfUnit(GivenUnit(t)[1])),
                                   OffsetOfUnit(GivenUnit(t)[1])),
                               OffsetOfUnit(Target(t))),
                           FactorOfUnit(Target(t))))
            /\ Get(points[t], "unit_id") = Some(Target(t))
            /\ OtherFieldsKept(t)

C14_Witness ==
    \E t \in DOMAIN points :
        /\ Finished(t)
        /\ GivenUnit(t) = Some(1) /\ Target(t) = 3
        /\ GivenValue(t) = Some(Num(2))
        /\ "offset" \notin DOMAIN Units[1]["baseConvFactor"]
        /\ points[t]["value"] = Some(Num(-54))
        /\ points[t]["start_date"] = "2017-01-01"

\* C15: a finished call between convertible units on a point whose value is
\* null returns the point with unit_id the target and the value still null,
\* every other field as given.
C15_NullValueKept ==
    \A t \in DOMAIN points :
        (Converts(t) /\ Finished(t) /\ GivenValue(t) = None) =>
            /\ Returned(t)
            /\ Get(points[t], "value") = None
            /\ Get(points[t], "unit_id") = Some(Target(t))
            /\ OtherFieldsKept(t)

C15_Witness ==
    \E t \in DOMAIN points :
        /\ Finished(t) /\ Converts(t)
        /\ "value" \in DOMAIN cu_given[t] /\ GivenValue(t) = None
        /\ GivenUnit(t) = Some(2) /\ Target(t) = 3
        /\ points[t]["unit_id"] = Some(3)

\* thread t has converted its point, in unit A, to B and what it got back to A,
\* both units convertible
RoundTrip(t) ==
    /\ Len(cu_targets[t]) = 2 /\ Finished(t)
    /\ Get(cu_original[t], "unit_id") = Some(cu_targets[t][2])
    /\ ~NonConvertible(cu_targets[t][1]) /\ ~NonConvertible(cu_targets[t][2])

\* C16: converting a point in unit A to a convertible unit B and the result
\* back to A gives unit_id A and the value the point had at first.
C16_RoundTrip ==
    \A t \in DOMAIN points :
        RoundTrip(t) =>
            /\ Returned(t)
            /\ Get(points[t], "unit_id") = Get(cu_original[t], "unit_id")
            /\ Get(points[t], "value") = Get(cu_original[t], "value")

C16_Witness ==
    \E t \in DOMAIN points :
        /\ RoundTrip(t)
        /\ cu_targets[t] = <<2, 3>>
        /\ Get(cu_original[t], "value") = Some(Num(1))
        /\ Get(cu_given[t], "value") = Some(Frac(293, 9000))
        /\ Get(cu_given[t], "unit_id") = Some(2)
        /\ Get(points[t], "value") = Some(Num(1))

Alone(point, target_unit_id) ==
    LET unit == Get(point, "unit_id")
        raised(kind, u) == [kind |-> kind, unit |-> u, point |-> point]
    IN  IF unit = None \/ unit = Some(target_unit_id)
        THEN [kind |-> "return", unit |-> 0, point |-> point]
        ELSE IF "baseConvFactor" \notin DOMAIN Units[unit[1]]
        THEN raised("AttributeError", 0)
        ELSE IF NonConvertible(unit[1])
        THEN raised("Exception", unit[1])
        ELSE IF "baseConvFactor" \notin DOMAIN Units[target_unit_id]
        THEN raised("AttributeError", 0)
        ELSE IF NonConvertible(target_unit_id)
        THEN raised("Exception", target_unit_id)
        ELSE [kind |-> "return", unit |-> 0,
              point |->
                 LET stamped == Put(point, "unit_id", Some(target_unit_id))
                 IN  IF Get(point, "value") = None THEN stamped
                     ELSE Put(stamped, "value",
                              Some(Div(Sub(Add(Mul(point["value"][1], FactorOfUnit(unit[1])),
                                               OffsetOfUnit(unit[1])),
                                           OffsetOfUnit(target_unit_id)),
                                       FactorOfUnit(target_unit_id))))]

\* C18: calls of convert_unit running at once on point objects of their own do
\* not disturb each other: every call ends as it would alone, with its point as
\* it would be alone, and a point is changed only by the call it was given to.
C18_ConcurrentCallsIndependent ==
    \A t \in DOMAIN points :
        /\ ~HasCalled(t) => points[t] = cu_original[t]
        /\ cu_pc[t] \in {"same_unit", "from", "to", "value"} => points[t] = cu_given[t]
        /\ Finished(t) =>
              LET alone == Alone(cu_given[t], Target(t))
              IN  /\ points[t] = alone.point
                  /\ cu_result[t].kind = alone.kind
                  /\ cu_result[t].unit = alone.unit
                  /\ cu_result[t].ref = (IF alone.kind = "return" THEN t ELSE 0)

\* both calls are under way, each having written its value
C18_Witness ==
    /\ Len(points) = 2
    /\ cu_pc[1] = "unit" /\ cu_pc[2] = "unit"
    /\ GivenUnit(1) = Some(1) /\ Target(1) = 3
    /\ GivenUnit(2) = Some(2) /\ Target(2) = 1
    /\ points[1]["value"] = Some(Frac(-279, 5))
    /\ points[2]["value"] = Some(Num(2000))

----------------------------------------------------------------------------
(* GroClient.get_descendant_regions.  gro/lib.py is not among the sources:  *)
(* lib.get_descendant_regions follows section 4.1 of the specification and  *)
(* test_descendant_regions in lib_test.py.                                   *)

\* most descendants the directory holds for the region asked about
MaxRegions == 3

RegionIds == 1..MaxRegions

\* lookup('regions', id), as the entries of LOOKUP_MAP
Region(id) == [id |-> id, name |-> "region", historical |-> id \in rg_historical]

\* the parameters with include_details False where the caller gives none
WithDetailsOffByDefault(opts) ==
    [descendant_level |-> Get(opts, "descendant_level"),
     include_historical |->
        IF "include_historical" \in DOMAIN opts THEN opts["include_historical"] ELSE TRUE,
     include_details |->
        IF "include_details" \in DOMAIN opts THEN opts["include_details"] ELSE FALSE]

\* descendant_level=None, include_historical=True, include_details=True
\* (client.py:317-318)
WithDefaults(opts) ==
    [descendant_level |-> Get(opts, "descendant_level"),
     include_historical |->
        IF "include_historical" \in DOMAIN opts THEN opts["include_historical"] ELSE TRUE,
     include_details |->
        IF "include_details" \in DOMAIN opts THEN opts["include_details"] ELSE TRUE]

\* the two flags handed on in each other's place
DescendantArgumentsSwapped(region_id, params) ==
    <<region_id, params.descendant_level, params.include_details,
      params.include_historical>>

\* lib.get_descendant_regions(..., region_id, descendant_level,
\* include_historical, include_details) (client.py:358-359)
DescendantArguments(region_id, params) ==
    <<region_id, params.descendant_level, params.include_historical,
      params.include_details>>

\* the wrapper catches the error and gives an empty list
ReturnedOrEmpty(outcome) ==
    IF outcome.kind = "NotFound" THEN [kind |-> "return", regions |-> <<>>] ELSE outcome

\* return lib.get_descendant_regions(...): what lib returns or raises is what
\* the caller gets (client.py:358-359)
ReturnedByWrapper(outcome) == outcome

\* step 3: historical descendants are dropped unless include_historical
Surviving(ids, include_historical) ==
    SelectSeq(ids, LAMBDA id : include_historical \/ id \notin rg_historical)

\* step 2: the full entity, or a record of the id alone
Shaped(ids, include_details) ==
    [i \in 1..Len(ids) |-> IF include_details THEN Region(ids[i]) ELSE [id |-> ids[i]]]

\* the whole call: the descendants are asked of the directory, resolved in one
\* batch when details or historical flags are needed, filtered and shaped; a
\* region that does not resolve gives NotFound
GetDescendantRegions ==
    /\ rg_pc = "ready"
    /\ \E opts \in {IF lv = None THEN o ELSE Put(o, "descendant_level", lv) :
                       o \in OptionalDicts({"include_historical", "include_details"}, BOOLEAN),
                       lv \in {None, Some(4)}} :
          LET args == DescendantArguments(MaxRegions + 1, WithDefaults(opts))
          IN  /\ rg_opts' = opts
              /\ rg_call' = args
              /\ rg_requests' = Append(rg_requests, <<args[1], args[2]>>)
              /\ IF ~rg_known
                 THEN /\ rg_result' =
                            ReturnedByWrapper([kind |-> "NotFound", regions |-> <<>>])
                      /\ UNCHANGED rg_lookups
                 ELSE /\ rg_lookups' = IF (args[4] \/ ~args[3]) /\ rg_descendants # <<>>
                                       THEN Append(rg_lookups, rg_descendants)
                                       ELSE rg_lookups
                      /\ rg_result' = ReturnedByWrapper(
                            [kind |-> "return",
                             regions |-> Shaped(Surviving(rg_descendants, args[3]), args[4])])
    /\ rg_pc' = "done"
    /\ UNCHANGED <<rg_known, rg_descendants, rg_historical, genVars, convVars, clientVars,
                   pointsVars>>

\* any directory: the region resolves or not, its descendants come in any
\* order, any of them are historical
InitRegions ==
    /\ NoGenerator /\ NoConversion /\ NoClient /\ NoPoints
    /\ rg_known \in BOOLEAN
    /\ rg_descendants \in {s \in SeqsUpTo(RegionIds, MaxRegions) :
                              \A i, j \in 1..Len(s) : s[i] = s[j] => i = j}
    /\ rg_historical \in SUBSET RegionIds
    /\ ~rg_known => (rg_descendants = <<>> /\ rg_historical = {})
    /\ rg_pc = "ready" /\ rg_opts = EmptyDict /\ rg_call = <<>>
    /\ rg_requests = <<>> /\ rg_lookups = <<>>
    /\ rg_result = [kind |-> "none", regions |-> <<>>]

NextRegions == GetDescendantRegions

SpecRegions == InitRegions /\ [][NextRegions]_vars

----------------------------------------------------------------------------
(* Claims on get_descendant_regions. *)

\* the flags in force: as given, True where the caller gave none
Flag(name) == IF name \in DOMAIN rg_opts THEN rg_opts[name] ELSE TRUE

RegionsReturned == rg_pc = "done" /\ rg_result.kind = "return"

ReturnedIds == {rg_result.regions[i]["id"] : i \in 1..Len(rg_result.regions)}

\* C19: with include_historical false the call returns exactly the descendants
\* whose historical flag is false, each once, with or without details; with
\* include_historical true it returns every descendant.
C19_HistoricalDropped ==
    RegionsReturned =>
        /\ Cardinality(ReturnedIds) = Len(rg_result.regions)
        /\ ReturnedIds =
              {rg_descendants[i] : i \in 1..Len(rg_descendants)}
                 \ (IF Flag("include_historical") THEN {} ELSE rg_historical)

C19_Witness ==
    /\ RegionsReturned
    /\ rg_descendants = <<1, 2>> /\ rg_historical = {1}
    /\ rg_opts = [include_historical |-> FALSE, include_details |-> FALSE]
    /\ rg_result.regions = <<[id |-> 2]>>

\* place of a descendant in the directory's answer
PlaceOf(id) == CHOOSE i \in 1..Len(rg_descendants) : rg_descendants[i] = id

\* C20: every descendant returned is the full entity when include_details is
\* true and a record of its id alone when it is false, and the descendants
\* returned stand in the order the directory gave them.
C20_ShapeAndOrder ==
    RegionsReturned =>
        /\ \A i \in 1..Len(rg_result.regions) :
              /\ rg_result.regions[i]["id"] \in
                    {rg_descendants[j] : j \in 1..Len(rg_descendants)}
              /\ rg_result.regions[i] =
                    IF Flag("include_details")
                    THEN Region(rg_result.regions[i]["id"])
                    ELSE [id |-> rg_result.regions[i]["id"]]
        /\ \A i, j \in 1..Len(rg_result.regions) :
              i < j => PlaceOf(rg_result.regions[i]["id"]) < PlaceOf(rg_result.regions[j]["id"])

C20_Witness ==
    /\ RegionsReturned
    /\ rg_descendants = <<3, 1, 2>> /\ rg_historical = {1}
    /\ rg_opts = [include_historical |-> FALSE]
    /\ rg_result.regions = <<Region(3), Region(2)>>
    /\ rg_lookups = <<(<<3, 1, 2>>)>>

\* C21: a call on a region that does not resolve ends with NotFound raised to
\* the caller: no list, empty or not, is returned, the directory is asked once
\* and no region is looked up.
C21_NotFoundPropagates ==
    (rg_pc = "done" /\ ~rg_known) =>
        /\ rg_result = [kind |-> "NotFound", regions |-> <<>>]
        /\ Len(rg_requests) = 1
        /\ rg_lookups = <<>>

C21_Witness ==
    /\ rg_pc = "done" /\ ~rg_known
    /\ rg_result.kind = "NotFound"
    /\ rg_opts = [include_details |-> FALSE]

\* C27: a call that ends with the exception naming a unit that is not
\* convertible, the source or the target, leaves the point object as it was
\* given, value and unit_id included.
C27_FailureLeavesPoint ==
    \A t \in DOMAIN points :
        (HasCalled(t) /\ cu_result[t].kind = "Exception") =>
            /\ points[t] = cu_given[t]
            /\ \A i \in 1..Len(cu_trace[t]) : cu_trace[t][i] \notin {"value", "unit"}

C27_Witness ==
    \E t \in DOMAIN points :
        /\ Finished(t)
        /\ cu_result[t] = [kind |-> "Exception", unit |-> 4, ref |-> 0]
        /\ GivenUnit(t) = Some(3) /\ GivenValue(t) = Some(Num(2)) /\ Target(t) = 4
        /\ cu_lookups[t] = <<3, 4>>
        /\ points[t] = cu_given[t]

----------------------------------------------------------------------------
(* Further claims about find_data_series. *)

\* C28: before the first item is asked for, find_data_series has made no search
\* and no listing call; once an item has been yielded, one search for every
\* role present and one listing call for every candidate tuple have been made,
\* so a consumer that stops early saves ranking calls only.
C28_SearchAndListingUpFront ==
    /\ (pc = "created" \/ (pc = "closed" /\ ~Ranked)) =>
          (searchLog = <<>> /\ listLog = <<>>)
    /\ Ranked =>
          /\ Len(searchLog) = Len(PresentRoles)
          /\ Len(listLog) = ProdCount(PresentRoles)
    /\ out # <<>> => Ranked

C28_Witness ==
    /\ pc = "closed"
    /\ Len(out) = 1
    /\ Len(searchLog) = 2
    /\ Len(listLog) = 4
    /\ rk_todo # <<>>

----------------------------------------------------------------------------
(* The saved series of the client: add_single_data_series, add_data_series, *)
(* GDH, get_df and get_data_series_list.  A data series handed to the       *)
(* client is an object: the saved list and the queue hold references to it. *)

\* most series a caller adds to one client
MaxAdded == 2

besidesClient == <<convVars, regionVars, pointsVars>>

\* saved list, queue and number of fetches made as a method finds them
Snapshot ==
    [list |-> self_data_series_list, queue |-> self_data_series_queue,
     fetches |-> Len(fetchLog)]

\* what a method that has ended leaves to its caller
Ended(name, ok, value) == [op |-> name, ok |-> ok, value |-> value]

\* a data series as get_data_series returns it
SampleSeries ==
    [metric_id |-> 1, item_id |-> 1, region_id |-> 1, source_id |-> 2, frequency_id |-> 9]

\* self._data_series_list.append(data_series);
\* self._data_series_queue.append(data_series) (client.py:613-614)
add_single_data_series(data_series) ==
    /\ heap' = Append(heap, data_series)
    /\ self_data_series_list' = Append(self_data_series_list, Len(heap) + 1)
    /\ self_data_series_queue' = Append(self_data_series_queue, Len(heap) + 1)

\* a caller adds a series of its own (client.py:596-616)
AddSingleDataSeries ==
    /\ op = "idle" /\ Len(heap) < MaxAdded
    /\ add_single_data_series(SampleSeries)
    /\ before' = Snapshot
    /\ last' = Ended("add_single_data_series", TRUE, <<>>)
    /\ UNCHANGED <<self_data_frame, fetchLog, op, show_revisions, genVars, besidesClient>>

\* criteria a caller of add_data_series gives
SampleCriteria == OptionalDicts({"item", "region"}, {"Corn"})

\* add_data_series(**kwargs): self.find_data_series(**kwargs) makes a generator,
\* none of whose body has run (client.py:727)
AddDataSeries ==
    /\ op = "idle" /\ Len(heap) < MaxAdded
    /\ kwargs' \in SampleCriteria
    /\ pc' = "created" /\ want' = FALSE
    /\ search_results' = <<>> /\ keys' = <<>> /\ combIdx' = 1 /\ all_data_series' = <<>>
    /\ searchLog' = <<>> /\ listLog' = <<>> /\ rankerLog' = <<>>
    /\ selections_list' = <<>> /\ rk_started' = FALSE
    /\ rk_todo' = <<>> /\ rk_cur' = EmptyDict /\ rk_srcs' = <<>>
    /\ rankLog' = <<>> /\ out' = <<>>
    /\ op' = "add_data_series"
    /\ before' = Snapshot
    /\ UNCHANGED <<dirHits, heap, self_data_series_list, self_data_series_queue,
                   self_data_frame, fetchLog, show_revisions, last, besidesClient>>

\* the for loop asks the generator for its first item (client.py:727)
AddNext ==
    /\ op = "add_data_series" /\ pc = "created"
    /\ Pull

\* the item is returned and nothing is saved
AddReturnOnly ==
    /\ op = "add_data_series" /\ pc = "yielded" /\ ~want
    /\ pc' = "closed"
    /\ op' = "idle"
    /\ last' = Ended("add_data_series", TRUE, <<Last(out)>>)
    /\ UNCHANGED <<heap, self_data_series_list, self_data_series_queue>>
    /\ UNCHANGED <<kwargs, dirHits, want, findVars, rankerLog, rankVars, out,
                   self_data_frame, fetchLog, show_revisions, before, besidesClient>>

\* the body of the loop: the item is saved and returned, which drops the
\* generator (client.py:728-729)
AddSave ==
    /\ op = "add_data_series" /\ pc = "yielded" /\ ~want
    /\ add_single_data_series(Last(out))
    /\ pc' = "closed"
    /\ op' = "idle"
    /\ last' = Ended("add_data_series", TRUE, <<Last(out)>>)
    /\ UNCHANGED <<kwargs, dirHits, want, findVars, rankerLog, rankVars, out,
                   self_data_frame, fetchLog, show_revisions, before, besidesClient>>

\* the generator is exhausted without an item: return None (client.py:730)
AddNone ==
    /\ op = "add_data_series" /\ pc = "done"
    /\ op' = "idle"
    /\ last' = Ended("add_data_series", TRUE, <<>>)
    /\ UNCHANGED <<genVars, heap, self_data_series_list, self_data_series_queue,
                   self_data_frame, fetchLog, show_revisions, before, besidesClient>>

\* get_df(show_revisions) is called (client.py:361)
GetDf ==
    /\ op = "idle"
    /\ show_revisions' \in BOOLEAN
    /\ op' = "get_df"
    /\ before' = Snapshot
    /\ UNCHANGED <<heap, self_data_series_list, self_data_series_queue, self_data_frame,
                   fetchLog, last, genVars, besidesClient>>

\* one turn of the while loop: the last series of the queue is popped, marked
\* when show_revisions, its points are fetched and put in the data frame; a
\* fetch that raises ends get_df (client.py:377-381)
GetDfFetch ==
    /\ op = "get_df" /\ self_data_series_queue # <<>>
    /\ LET ref == Last(self_data_series_queue)
       IN  /\ self_data_series_queue' = Front(self_data_series_queue)
           /\ heap' = IF show_revisions
                      THEN [heap EXCEPT ![ref] = Put(@, "show_revisions", TRUE)]
                      ELSE heap
           /\ \/ /\ fetchLog' = Append(fetchLog, <<ref, "ok">>)
                 /\ self_data_frame' = Append(self_data_frame, ref)
                 /\ UNCHANGED <<op, last>>
              \/ /\ fetchLog' = Append(fetchLog, <<ref, "error">>)
                 /\ op' = "idle"
                 /\ last' = Ended("get_df", FALSE, self_data_frame)
                 /\ UNCHANGED self_data_frame
    /\ UNCHANGED <<self_data_series_list, show_revisions, before, genVars, besidesClient>>

\* the queue is empty: return self._data_frame (client.py:377, 382)
GetDfReturn ==
    /\ op = "get_df" /\ self_data_series_queue = <<>>
    /\ op' = "idle"
    /\ last' = Ended("get_df", TRUE, self_data_frame)
    /\ UNCHANGED <<heap, self_data_series_list, self_data_series_queue, self_data_frame,
                   fetchLog, show_revisions, before, genVars, besidesClient>>

entity_keys == <<"metric_id", "item_id", "region_id", "partner_region_id", "source_id",
                 "frequency_id">>

\* selection = dict(zip(entity_keys, entity_ids)), then the optional selections
\* whose key is not among entity_keys (client.py:569-577)
GdhSelection(entity_ids, optional_selections) ==
    LET selection == DictZip(entity_keys, entity_ids)
        added == (DOMAIN optional_selections) \ DOMAIN selection
    IN  [k \in (DOMAIN selection) \cup added |->
            IF k \in DOMAIN selection THEN selection[k] ELSE optional_selections[k]]

\* GDH("860032-274-1231-0-14-9", ...): the selection is saved and get_df is
\* called, which finds the saved list and the queue with the selection in them
\* (client.py:569-580)
GDH ==
    /\ op = "idle" /\ Len(heap) < MaxAdded
    /\ \E optional_selections \in {EmptyDict, [unit_id |-> 10, source_id |-> 99]} :
          add_single_data_series(
              GdhSelection(<<860032, 274, 1231, 0, 14, 9>>, optional_selections))
    /\ op' = "get_df"
    /\ show_revisions' = FALSE
    /\ before' = [list |-> self_data_series_list', queue |-> self_data_series_queue',
                  fetches |-> Len(fetchLog)]
    /\ UNCHANGED <<self_data_frame, fetchLog, last, genVars, besidesClient>>

\* the saved list in the opposite order
ReversedList(refs) == [i \in 1..Len(refs) |-> heap[refs[Len(refs) + 1 - i]]]

\* list(self._data_series_list) (client.py:594)
ListCopy(refs) == [i \in 1..Len(refs) |-> heap[refs[i]]]

GetDataSeriesList ==
    /\ op = "idle"
    /\ last' = Ended("get_data_series_list", TRUE, ListCopy(self_data_series_list))
    /\ UNCHANGED <<heap, self_data_series_list, self_data_series_queue, self_data_frame,
                   fetchLog, op, show_revisions, before, genVars, besidesClient>>

\* a new client (client.py:44-50) and a directory with or without entities
InitClient ==
    /\ kwargs = EmptyDict
    /\ dirHits \in {[r \in RoleSet |-> h] : h \in {0, MaxHits}}
    /\ pc = "unused" /\ want = FALSE
    /\ search_results = <<>> /\ keys = <<>> /\ combIdx = 1 /\ all_data_series = <<>>
    /\ searchLog = <<>> /\ listLog = <<>> /\ rankerLog = <<>>
    /\ selections_list = <<>> /\ rk_started = FALSE
    /\ rk_todo = <<>> /\ rk_cur = EmptyDict /\ rk_srcs = <<>>
    /\ rankLog = <<>> /\ out = <<>>
    /\ heap = <<>> /\ self_data_series_list = <<>> /\ self_data_series_queue = <<>>
    /\ self_data_frame = <<>> /\ fetchLog = <<>>
    /\ op = "idle" /\ show_revisions = FALSE
    /\ before = [list |-> <<>>, queue |-> <<>>, fetches |-> 0]
    /\ last = Ended("__init__", TRUE, <<>>)
    /\ NoConversion /\ NoRegionCall /\ NoPoints

NextClient ==
    \/ AddSingleDataSeries
    \/ AddDataSeries \/ AddNext \/ AddSave \/ AddNone
    \/ SearchItem \/ SearchMetric \/ SearchRegion \/ SearchPartner
    \/ ProductStep \/ CallRanker
    \/ RankStart \/ RankCall \/ RankYield \/ RankStop
    \/ GetDf \/ GetDfFetch \/ GetDfReturn
    \/ GDH
    \/ GetDataSeriesList

SpecClient == InitClient /\ [][NextClient]_vars

----------------------------------------------------------------------------
(* Claims on the saved series of the client. *)

\* the method named has just ended and no other has begun
JustEnded(name) == op = "idle" /\ last.op = name

\* C22: add_data_series reads one item of find_data_series at most.  When there
\* is one it is saved at the end of the saved list and of the queue and
\* returned; when there is none, None is returned and the saved list and the
\* queue are as they were.
C22_TopItemSaved ==
    /\ op = "add_data_series" =>
          /\ Len(out) <= 1
          /\ self_data_series_list = before.list
          /\ self_data_series_queue = before.queue
    /\ JustEnded("add_data_series") =>
          IF last.value = <<>>
          THEN /\ pc = "done" /\ out = <<>>
               /\ self_data_series_list = before.list
               /\ self_data_series_queue = before.queue
          ELSE /\ pc = "closed" /\ Len(out) = 1
               /\ last.value = <<out[1]>>
               /\ self_data_series_list = Append(before.list, Len(heap))
               /\ self_data_series_queue = Append(before.queue, Len(heap))
               /\ heap # <<>> /\ heap[Len(heap)] = out[1]

\* an item is saved while more were left to rank and to yield
C22_Witness ==
    /\ JustEnded("add_data_series")
    /\ last.value # <<>>
    /\ before.list # <<>>
    /\ rk_todo # <<>> \/ rk_srcs # <<>>
    /\ Len(self_data_series_list) = Len(before.list) + 1

\* the references a sequence holds
Refs(refs) == {refs[i] : i \in 1..Len(refs)}

\* how many times the points of a series were fetched with the outcome named
Fetches(ref, outcome) ==
    Cardinality({i \in 1..Len(fetchLog) : fetchLog[i] = <<ref, outcome>>})

\* C26: when a fetch fails inside get_df, the series whose points were asked
\* for is still in the queue once the error has reached the caller.
C26_FailedSeriesStaysPending ==
    (JustEnded("get_df") /\ ~last.ok) =>
        Last(fetchLog)[1] \in Refs(self_data_series_queue)

\* C23: when get_df returns, the queue is empty and the points of every saved
\* series have been fetched, with success, exactly once over all the calls of
\* get_df; a get_df that finds the queue empty fetches nothing.
C23_EachSeriesFetchedOnce ==
    /\ \A ref \in Refs(self_data_series_list) : Fetches(ref, "ok") <= 1
    /\ (JustEnded("get_df") /\ last.ok) =>
          /\ self_data_series_queue = <<>>
          /\ \A ref \in Refs(self_data_series_list) : Fetches(ref, "ok") = 1
          /\ before.queue = <<>> => Len(fetchLog) = before.fetches

\* C25: every series of the queue is in the saved list, no step removes or
\* moves an entry of the saved list, and get_data_series_list returns the
\* saved series in the order they were added.
C25_SavedListOnlyGrows ==
    /\ [](/\ Refs(self_data_series_queue) \subseteq Refs(self_data_series_list)
          /\ self_data_series_list = [i \in 1..Len(heap) |-> i]
          /\ JustEnded("get_data_series_list") =>
                last.value = [i \in 1..Len(heap) |-> heap[i]])
    /\ [][/\ Len(self_data_series_list') >= Len(self_data_series_list)
          /\ SubSeq(self_data_series_list', 1, Len(self_data_series_list))
                = self_data_series_list]_vars

\* two different series are listed after get_df has emptied part of the queue
C25_Witness ==
    /\ JustEnded("get_data_series_list")
    /\ Len(last.value) = 2 /\ last.value[1] # last.value[2]
    /\ Len(self_data_series_queue) = 1
    /\ fetchLog # <<>>

----------------------------------------------------------------------------
(* get_data_points: the points of a selection are fetched and, when the     *)
(* selection names a unit, each is converted to it by convert_unit, one     *)
(* after the other in the order fetched.  Point i of the response is the    *)
(* point of caller i of convert_unit.                                       *)

\* responses of lib.get_data_points: no point, one, or as many as Threads
SampleResponses ==
    UNION {[1..n -> SamplePoints] : n \in 0..Cardinality(Threads)}

\* selections a caller gives: a data series, with or without a unit_id
PointSelections ==
    {SampleSeries} \cup {Put(SampleSeries, "unit_id", u) : u \in UnitIds}

\* the selection is taken to have no unit_id
UnitIdIgnored(selections) == FALSE

\* 'unit_id' in selections (client.py:535)
HasUnitId(selections) == "unit_id" \in DOMAIN selections

\* what get_data_points gives its caller: the list it returns, as references
\* to the point objects, or the exception it raises
PointsResult(kind, refs) == [kind |-> kind, refs |-> refs]

\* the points the map has converted so far
ConvertedSoFar == {t \in DOMAIN points : Finished(t) /\ Returned(t)}

\* get_data_points(**selections): the points are fetched; without a unit_id
\* the list fetched is returned as it is (client.py:533-535, 539)
GetDataPoints ==
    /\ gp_pc = "idle"
    /\ \E selections \in PointSelections :
          /\ gp_selections' = selections
          /\ IF HasUnitId(selections)
             THEN /\ gp_pc' = "map"
                  /\ gp_result' = PointsResult("none", <<>>)
             ELSE /\ gp_pc' = "returned"
                  /\ gp_result' = PointsResult("return", [i \in DOMAIN points |-> i])
    /\ UNCHANGED <<genVars, regionVars, clientVars, convVars>>

\* map calls convert_unit(point, target_unit_id=selections['unit_id']) on the
\* next point, the calls on the points before it having returned
\* (client.py:536-538)
MapConvert(t) ==
    /\ gp_pc = "map"
    /\ ConvertedSoFar = 1..(t - 1)
    /\ Call(t)
    /\ cu_targets'[t] = <<gp_selections["unit_id"]>>

\* every point is converted: the list of what convert_unit returned is
\* returned (client.py:536-538)
MapReturn ==
    /\ gp_pc = "map"
    /\ ConvertedSoFar = DOMAIN points
    /\ gp_pc' = "returned"
    /\ gp_result' = PointsResult("return", [i \in DOMAIN points |-> cu_result[i].ref])
    /\ UNCHANGED <<gp_selections, genVars, regionVars, clientVars, convVars>>

\* a call of convert_unit raised: get_data_points ends with its exception
MapRaise ==
    /\ gp_pc = "map"
    /\ \E t \in DOMAIN points :
          /\ Finished(t) /\ ~Returned(t)
          /\ gp_result' = PointsResult(cu_result[t].kind, <<>>)
    /\ gp_pc' = "raised"
    /\ UNCHANGED <<gp_selections, genVars, regionVars, clientVars, convVars>>

\* a response of the API waits to be fetched
InitPoints ==
    /\ NoGenerator /\ NoRegionCall /\ NoClient
    /\ \E objects \in SampleResponses : Callers(objects)
    /\ gp_selections = EmptyDict
    /\ gp_pc = "idle"
    /\ gp_result = PointsResult("none", <<>>)

NextPoints ==
    \/ GetDataPoints
    \/ MapReturn
    \/ MapRaise
    \/ \E t \in Threads :
          \/ MapConvert(t)
          \/ SameUnit(t)
          \/ From(t)
          \/ To(t)
          \/ WriteValue(t)
          \/ WriteUnit(t)

SpecPoints == InitPoints /\ [][NextPoints]_vars

\* C24: what get_data_points returns is the list of the points fetched, in
\* the order fetched and as many.  For a selection without a unit_id no point
\* is changed and convert_unit is not called; for a selection with a unit_id
\* every point that came with a unit has the unit asked for, and a point that
\* came with none still has none.
C24_PointsInRequestedUnit ==
    gp_pc = "returned" =>
        /\ gp_result = PointsResult("return", [i \in DOMAIN points |-> i])
        /\ IF "unit_id" \in DOMAIN gp_selections
           THEN \A i \in DOMAIN points :
                   Get(points[i], "unit_id") =
                      IF Get(cu_original[i], "unit_id") = None
                      THEN None
                      ELSE Some(gp_selections["unit_id"])
           ELSE /\ points = cu_original
                /\ \A i \in DOMAIN points : ~HasCalled(i)

\* two points in different units come back in the unit asked for, a third unit
C24_Witness ==
    /\ gp_pc = "returned"
    /\ "unit_id" \in DOMAIN gp_selections
    /\ Len(points) = 2
    /\ Get(cu_original[1], "unit_id") = Some(1)
    /\ Get(cu_original[2], "unit_id") = Some(2)
    /\ gp_selections["unit_id"] \notin {1, 2}
    /\ points # cu_original

====
